---- MODULE Spec2Model ----
(***************************************************************************)
(* State-machine model of the SAADC driver in nrf-hal-common/src/saadc.rs: *)
(* the one-shot engine `Saadc` (new / read_channel / free) and the         *)
(* multi-channel engine `SaadcTask<CHANNELS>` (new / start_sample /        *)
(* prepare_sample / read_buffer / complete_sample / sample_blocking),      *)
(* running against the peripheral's register block and its EasyDMA.        *)
(*                                                                         *)
(* Every register write of the driver is one application of a write        *)
(* operator (WrReg, WrCh, Task, Fence) to a "machine" m = [r, t, panicked] *)
(* where r is the register block and t the log of the accesses of the      *)
(* running call, each entry carrying the enable bit and the DMA registers  *)
(* as they are right after the access.  A driver call is one action,       *)
(* except that a busy-wait on a hardware event splits it at the wait.      *)
(*                                                                         *)
(* The hardware is a superset of what the peripheral does: a triggered     *)
(* calibration or conversion may finish at any later moment or never, it   *)
(* is not gated on the enable bit, and a task triggered twice before the   *)
(* hardware acts is one pending task.                                      *)
(***************************************************************************)
EXTENDS Integers, Sequences, FiniteSets, TLC

(***************************************************************************)
(* Bounds of the model.                                                    *)
(***************************************************************************)
\* const generic CHANNELS of SaadcTask<CHANNELS>
CHANNELS == 2
\* the hardware produces the code MaxCode and the 16-bit pattern of
\* -MaxCode (a negative i16), and the codes that follow them
MaxCode == 1
\* in specification Spec, sample_blocking polls at most this many times
\* without seeing the end event (SpecBlocking runs the loop to its ceiling)
MaxSpecPolls == 2

(***************************************************************************)
(* Program constants.                                                      *)
(***************************************************************************)
\* `if count > 10_000` in sample_blocking
PollCeiling == 10000
\* width of a conversion result and of the mapped value
Width16 == 65536
\* number of channel slots ch[0..7] of the register block
NumSlots == 8

Raw16 == {MaxCode, Width16 - MaxCode}

\* mutant of ToI16: `val` declared u16, as the SaadcTask buffer is
ToI16Unsigned(raw) == raw

\* `val: i16` read back from the 16-bit pattern the DMA stored
ToI16(raw) == IF raw >= Width16 \div 2 THEN raw - Width16 ELSE raw

(***************************************************************************)
(* SaadcConfig and its Default impl.                                       *)
(***************************************************************************)
\* mutant of DefaultConfig: the acquisition time left at 10 us
DefaultConfigShortTime ==
    [resolution |-> "_14BIT", oversample |-> "OVER8X", reference |-> "VDD1_4",
     gain |-> "GAIN1_4", resistor |-> "BYPASS", time |-> "_10US"]

\* `impl Default for SaadcConfig`
DefaultConfig ==
    [resolution |-> "_14BIT", oversample |-> "OVER8X", reference |-> "VDD1_4",
     gain |-> "GAIN1_4", resistor |-> "BYPASS", time |-> "_20US"]

\* a second configuration a caller may pass, differing from the default in
\* every field
OtherConfig ==
    [resolution |-> "_12BIT", oversample |-> "BYPASS", reference |-> "INTERNAL",
     gain |-> "GAIN1_6", resistor |-> "PULLDOWN", time |-> "_10US"]

Configs == {DefaultConfig, OtherConfig}

\* mutant of ChConfig: burst left disabled
ChConfigNoBurst(config) ==
    [refsel |-> config.reference, gain |-> config.gain, tacq |-> config.time,
     mode |-> "SE", resp |-> config.resistor, resn |-> "BYPASS",
     burst |-> "DISABLED"]

\* the value written to ch[idx].config
ChConfig(config) ==
    [refsel |-> config.reference, gain |-> config.gain, tacq |-> config.time,
     mode |-> "SE", resp |-> config.resistor, resn |-> "BYPASS",
     burst |-> "ENABLED"]

(***************************************************************************)
(* Channel resolution: the match on the logical channel code.              *)
(***************************************************************************)
\* cfg(not(feature = "9160")): internal VDD is selectable
HasVdd == TRUE
\* cfg(any(feature = "52833", feature = "52840")): VDDH/5 is selectable
HasVddHdiv5 == TRUE

\* mutant of PselpOf: the arms for codes 6 and 7 exchanged
PselpOfSwapped(ch) ==
    CASE ch = 0 -> "AnalogInput0"
      [] ch = 1 -> "AnalogInput1"
      [] ch = 2 -> "AnalogInput2"
      [] ch = 3 -> "AnalogInput3"
      [] ch = 4 -> "AnalogInput4"
      [] ch = 5 -> "AnalogInput5"
      [] ch = 6 -> "AnalogInput7"
      [] ch = 7 -> "AnalogInput6"
      [] ch = 8 /\ HasVdd -> "VDD"
      [] ch = 13 /\ HasVddHdiv5 -> "VDDHDIV5"
      [] OTHER -> "none"

\* the pselp variant a channel code selects, "none" for the `_` arm
PselpOf(ch) ==
    CASE ch = 0 -> "AnalogInput0"
      [] ch = 1 -> "AnalogInput1"
      [] ch = 2 -> "AnalogInput2"
      [] ch = 3 -> "AnalogInput3"
      [] ch = 4 -> "AnalogInput4"
      [] ch = 5 -> "AnalogInput5"
      [] ch = 6 -> "AnalogInput6"
      [] ch = 7 -> "AnalogInput7"
      [] ch = 8 /\ HasVdd -> "VDD"
      [] ch = 13 /\ HasVddHdiv5 -> "VDDHDIV5"
      [] OTHER -> "none"

\* channel codes the calls are tried with: external pins, the internal
\* sources and a code no arm of the match covers
PinCodes == {0, 2, 8, 13, 9}

\* channel arrays SaadcTask::new is tried with
ChannelArrays ==
    { [i \in 1..CHANNELS |-> IF i = 1 THEN 0 ELSE 8],
      [i \in 1..CHANNELS |-> IF i = CHANNELS THEN 9 ELSE 2] }

(***************************************************************************)
(* Caller-supplied mapping functions (the `callback` parameter).           *)
(***************************************************************************)
Callbacks == {"id", "double"}

Apply(f, v) == IF f = "double" THEN (2 * v) % Width16 ELSE v

\* T::default() of the mapped type
DefaultT == 0

VARIABLES
    saadc,     \* the register block and the hardware's progress
    engine,    \* who holds the peripheral: "none", "Saadc", "SaadcTask", "panicked"
    pc,        \* position of the running call: "idle", "new_wait", "rc_wait", "sb_poll"
    buffer,    \* SaadcTask.buffer
    val,       \* the local `val` of read_channel
    count,     \* the poll counter of sample_blocking
    callback,  \* the callback of the running sample_blocking
    trace,     \* register accesses of the running or last call
    cycle,     \* the call whose sample trigger software has not yet seen end, or "idle"
    xfer,      \* what the hardware stored in its last transfer
    last       \* the last call that returned, and what it returned

vars == <<saadc, engine, pc, buffer, val, count, callback, trace, cycle, xfer, last>>

(***************************************************************************)
(* The register block after reset.                                         *)
(***************************************************************************)
Slots == 0..(NumSlots - 1)

\* ch[n].config after reset
ResetChConfig ==
    [refsel |-> "INTERNAL", gain |-> "GAIN1_6", tacq |-> "_10US",
     mode |-> "SE", resp |-> "BYPASS", resn |-> "BYPASS", burst |-> "DISABLED"]

ResetRegs ==
    [enable |-> FALSE,
     resolution |-> "_12BIT",
     oversample |-> "BYPASS",
     samplerate |-> "TASK",
     ch_config |-> [s \in Slots |-> ResetChConfig],
     ch_pselp |-> [s \in Slots |-> "NC"],
     ch_pseln |-> [s \in Slots |-> "NC"],
     events_calibratedone |-> FALSE,
     events_end |-> FALSE,
     result_ptr |-> "null",
     result_maxcnt |-> 0,
     result_amount |-> 0,
     inten |-> {},
     \* hardware progress: a calibration is running, EasyDMA is armed,
     \* a conversion is pending
     calibrating |-> FALSE,
     started |-> FALSE,
     sampling |-> FALSE]

(***************************************************************************)
(* Register accesses.                                                      *)
(***************************************************************************)
Snap(r, name, slot) ==
    [reg |-> name, slot |-> slot, enable |-> r.enable,
     ptr |-> r.result_ptr, maxcnt |-> r.result_maxcnt,
     calibrating |-> r.calibrating]

Log(m, name, slot, r2) ==
    [m EXCEPT !.r = r2, !.t = Append(m.t, Snap(r2, name, slot))]

Machine(r) == [r |-> r, t |-> <<>>, panicked |-> FALSE]

\* <reg>.write(..) and <event>.reset()
WrReg(m, field, v) == Log(m, field, -1, [m.r EXCEPT ![field] = v])

\* ch[idx].<reg>.write(..)
WrCh(m, field, idx, v) == Log(m, field, idx, [m.r EXCEPT ![field][idx] = v])

\* tasks_<name>.write(1): the hardware latches the request
Task(m, name) ==
    Log(m, name, -1,
        CASE name = "tasks_calibrateoffset" -> [m.r EXCEPT !.calibrating = TRUE]
          [] name = "tasks_start" -> [m.r EXCEPT !.started = TRUE]
          [] name = "tasks_sample" -> [m.r EXCEPT !.sampling = TRUE])

\* compiler_fence(SeqCst)
Fence(m) == Log(m, "compiler_fence", -1, m.r)

\* inten.write(..) replaces the enabled set; intenset.write ors bits in;
\* intenclr.write clears bits
WrIntenset(m, bits) == Log(m, "intenset", -1, [m.r EXCEPT !.inten = @ \cup bits])

\* mutant of WrIntenclr: a write of 1 leaves the bit as it is
WrIntenclrNoEffect(m, bits) == Log(m, "intenclr", -1, m.r)

WrIntenclr(m, bits) == Log(m, "intenclr", -1, [m.r EXCEPT !.inten = @ \ bits])

(***************************************************************************)
(* What a call returns.                                                    *)
(***************************************************************************)
\* op, tag and data are the call and its result; the other fields record
\* how the result came about: bufRead - the call read the sample buffer;
\* inFlight - the cycle cyc was in flight when it did (or, for a call that
\* read nothing, when it was made); cycle - the cycle in flight before the
\* step that returns; reads - how often its poll
\* loop read the event; f - its callback; endSeen and amount - the end event
\* and result.amount of the register block r the call went by
Ret(op, tag, data, bufRead, cyc, reads, f, r) ==
    [op |-> op, tag |-> tag, data |-> data, bufRead |-> bufRead,
     inFlight |-> cyc # "idle", cycle |-> cycle, reads |-> reads,
     f |-> f, endSeen |-> r.events_end, amount |-> r.result_amount]

NoRet == Ret("none", "none", <<>>, FALSE, "idle", 0, "id", ResetRegs)

Running(op) == Ret(op, "running", <<>>, FALSE, "idle", 0, "id", ResetRegs)

ZeroBuffer == [i \in 1..CHANNELS |-> 0]

Init ==
    /\ saadc = ResetRegs
    /\ engine = "none"
    /\ pc = "idle"
    /\ buffer = ZeroBuffer
    /\ val = 0
    /\ count = 0
    /\ callback = "id"
    /\ trace = <<>>
    /\ cycle = "idle"
    /\ xfer = <<>>
    /\ last = NoRet

(***************************************************************************)
(* Hardware steps.                                                         *)
(***************************************************************************)
\* the offset calibration finishes and raises CALIBRATEDONE
HwCalibrateDone ==
    /\ saadc.calibrating
    /\ saadc' = [saadc EXCEPT !.calibrating = FALSE, !.events_calibratedone = TRUE]
    /\ UNCHANGED <<engine, pc, buffer, val, count, callback, trace, cycle, xfer, last>>

\* EasyDMA stores the first amt of the results vals at result.ptr, reports
\* amt in result.amount and raises END
HwEnd(vals, amt) ==
    /\ saadc.started /\ saadc.sampling
    /\ Len(vals) = saadc.result_maxcnt
    /\ amt \in 0..saadc.result_maxcnt
    /\ saadc' = [saadc EXCEPT !.started = FALSE, !.sampling = FALSE,
                              !.events_end = TRUE, !.result_amount = amt]
    /\ buffer' = IF saadc.result_ptr = "buffer"
                 THEN [i \in 1..CHANNELS |-> IF i <= amt THEN vals[i] ELSE buffer[i]]
                 ELSE buffer
    /\ val' = IF saadc.result_ptr = "val" /\ amt >= 1 THEN vals[1] ELSE val
    /\ xfer' = SubSeq(vals, 1, amt)
    /\ UNCHANGED <<engine, pc, count, callback, trace, cycle, last>>

\* the results of one conversion: consecutive 16-bit codes from base on,
\* so that no two neighbouring elements are equal
Results(base, n) == [i \in 1..n |-> (base + i - 1) % Width16]

HwConvert ==
    \E base \in Raw16 : \E amt \in 0..saadc.result_maxcnt :
        HwEnd(Results(base, saadc.result_maxcnt), amt)

(***************************************************************************)
(* Saadc: the one-shot engine.                                             *)
(***************************************************************************)
\* Saadc::new up to the calibration wait
SaadcNewWrites(r, config) ==
    LET m1 == WrReg(Machine(r), "resolution", config.resolution)
        m2 == WrReg(m1, "oversample", config.oversample)
        m3 == WrReg(m2, "samplerate", "TASK")
        m4 == WrCh(m3, "ch_config", 0, ChConfig(config))
        m5 == WrCh(m4, "ch_pseln", 0, "NC")
        m6 == WrReg(m5, "events_calibratedone", FALSE)
        m7 == Task(m6, "tasks_calibrateoffset")
    IN  m7

SaadcNew(config) ==
    /\ engine = "none" /\ pc = "idle"
    /\ LET m == SaadcNewWrites(saadc, config)
       IN  /\ saadc' = m.r
           /\ trace' = m.t
    /\ engine' = "Saadc"
    /\ pc' = "new_wait"
    /\ last' = Running("Saadc::new")
    /\ UNCHANGED <<buffer, val, count, callback, cycle, xfer>>

\* `while saadc.events_calibratedone.read().bits() == 0 {}` falls through
SaadcNewReturn ==
    /\ pc = "new_wait"
    /\ saadc.events_calibratedone
    /\ pc' = "idle"
    /\ last' = Ret("Saadc::new", "Saadc", <<>>, FALSE, cycle, 1, "id", saadc)
    /\ UNCHANGED <<saadc, engine, buffer, val, count, callback, trace, cycle, xfer>>

\* Saadc::free
SaadcFree ==
    /\ engine = "Saadc" /\ pc = "idle"
    /\ LET m == WrReg(Machine(saadc), "enable", FALSE)
       IN  /\ saadc' = m.r
           /\ trace' = m.t
    /\ engine' = "none"
    /\ last' = Ret("free", "SAADC", <<>>, FALSE, cycle, 0, "id", saadc)
    /\ UNCHANGED <<pc, buffer, val, count, callback, cycle, xfer>>

\* `if self.0.result.amount.read().bits() != 1`
AmountMismatch(amount) == amount # 1

\* read_channel up to the wait for the end event
ReadChannelWrites(r, ch) ==
    LET m0 == Machine(r)
    IN  IF PselpOf(ch) = "none"
        THEN [m0 EXCEPT !.panicked = TRUE]
        ELSE LET m1 == WrCh(m0, "ch_pselp", 0, PselpOf(ch))
                 m2 == WrReg(m1, "result_ptr", "val")
                 m3 == WrReg(m2, "result_maxcnt", 1)
                 m4 == Fence(m3)
                 m5 == Task(m4, "tasks_start")
                 m6 == Task(m5, "tasks_sample")
             IN  m6

ReadChannel(ch) ==
    /\ engine = "Saadc" /\ pc = "idle"
    /\ LET m == ReadChannelWrites(saadc, ch)
       IN  /\ saadc' = m.r
           /\ trace' = m.t
           /\ IF m.panicked
              THEN /\ pc' = "idle"
                   /\ last' = Ret("read_channel", "Err", <<>>, FALSE, cycle, 0,
                                  "id", saadc)
                   /\ cycle' = cycle
              ELSE /\ pc' = "rc_wait"
                   /\ last' = Running("read_channel")
                   /\ cycle' = "read_channel"
    /\ val' = 0
    /\ UNCHANGED <<engine, buffer, count, callback, xfer>>

\* mutant of ReadChannelReturn: the wait for the end event left out
ReadChannelReturnNoWait ==
    /\ pc = "rc_wait"
    /\ LET m == WrReg([r |-> saadc, t |-> trace, panicked |-> FALSE],
                      "events_end", FALSE)
       IN  /\ saadc' = m.r
           /\ trace' = m.t
    /\ last' = IF AmountMismatch(saadc.result_amount)
               THEN Ret("read_channel", "Err", <<>>, FALSE, "idle", 1, "id", saadc)
               ELSE Ret("read_channel", "Ok", <<ToI16(val)>>, TRUE, "idle", 1, "id",
                        saadc)
    /\ pc' = "idle"
    /\ cycle' = "idle"
    /\ val' = 0
    /\ UNCHANGED <<engine, buffer, count, callback, xfer>>

\* `while self.0.events_end.read().bits() == 0 {}` falls through, then the
\* rest of read_channel
ReadChannelReturn ==
    /\ pc = "rc_wait"
    /\ saadc.events_end
    /\ LET m == WrReg([r |-> saadc, t |-> trace, panicked |-> FALSE],
                      "events_end", FALSE)
       IN  /\ saadc' = m.r
           /\ trace' = m.t
    /\ last' = IF AmountMismatch(saadc.result_amount)
               THEN Ret("read_channel", "Err", <<>>, FALSE, "idle", 1, "id", saadc)
               ELSE Ret("read_channel", "Ok", <<ToI16(val)>>, TRUE, "idle", 1, "id",
                        saadc)
    /\ pc' = "idle"
    /\ cycle' = "idle"
    /\ val' = 0
    /\ UNCHANGED <<engine, buffer, count, callback, xfer>>

SaadcNext ==
    \/ \E config \in Configs : SaadcNew(config)
    \/ SaadcNewReturn
    \/ SaadcFree
    \/ \E ch \in PinCodes : ReadChannel(ch)
    \/ ReadChannelReturn

(***************************************************************************)
(* SaadcTask<CHANNELS>: the multi-channel engine.                          *)
(***************************************************************************)
\* the `for (idx, ch) in channels.iter().enumerate()` loop of
\* SaadcTask::new; the `_ => panic!()` arm stops it
RECURSIVE ChannelLoop(_, _, _, _)
ChannelLoop(m, config, channels, idx) ==
    IF idx >= Len(channels)
    THEN m
    ELSE LET ch == channels[idx + 1]
             m1 == WrCh(m, "ch_config", idx, ChConfig(config))
         IN  IF PselpOf(ch) = "none"
             THEN [m1 EXCEPT !.panicked = TRUE]
             ELSE LET m2 == WrCh(m1, "ch_pselp", idx, PselpOf(ch))
                      m3 == WrCh(m2, "ch_pseln", idx, "NC")
                  IN  ChannelLoop(m3, config, channels, idx + 1)

\* mutant of TaskNewWrites: the enable write moved before the channel loop
TaskNewWritesEnableFirst(r, config, channels) ==
    LET m1 == WrReg(Machine(r), "resolution", config.resolution)
        m2 == WrReg(m1, "oversample", config.oversample)
        m3 == WrReg(m2, "samplerate", "TASK")
        m4 == WrReg(m3, "enable", TRUE)
        m5 == ChannelLoop(m4, config, channels, 0)
        m6 == WrReg(m5, "events_calibratedone", FALSE)
        m7 == Task(m6, "tasks_calibrateoffset")
        m8 == WrReg(m7, "inten", {"END"})
        m9 == WrIntenset(m8, {"END"})
    IN  IF m5.panicked THEN m5 ELSE m9

\* SaadcTask::new
TaskNewWrites(r, config, channels) ==
    LET m1 == WrReg(Machine(r), "resolution", config.resolution)
        m2 == WrReg(m1, "oversample", config.oversample)
        m3 == WrReg(m2, "samplerate", "TASK")
        m4 == ChannelLoop(m3, config, channels, 0)
        m5 == WrReg(m4, "enable", TRUE)
        m6 == WrReg(m5, "events_calibratedone", FALSE)
        m7 == Task(m6, "tasks_calibrateoffset")
        m8 == WrReg(m7, "inten", {"END"})
        m9 == WrIntenset(m8, {"END"})
    IN  IF m4.panicked THEN m4 ELSE m9

SaadcTaskNew(config, channels, buf) ==
    /\ engine = "none" /\ pc = "idle"
    /\ LET m == TaskNewWrites(saadc, config, channels)
       IN  /\ saadc' = m.r
           /\ trace' = m.t
           /\ engine' = IF m.panicked THEN "panicked" ELSE "SaadcTask"
           /\ last' = IF m.panicked
                      THEN Ret("SaadcTask::new", "panic", <<>>, FALSE, cycle, 0, "id",
                               saadc)
                      ELSE Ret("SaadcTask::new", "SaadcTask", <<>>, FALSE, cycle, 0,
                               "id", saadc)
    /\ buffer' = buf
    /\ UNCHANGED <<pc, val, count, callback, cycle, xfer>>

\* the writes start_sample, prepare_sample and sample_blocking begin with
ProgramDma(m) ==
    LET m1 == WrReg(m, "events_end", FALSE)
        m2 == WrReg(m1, "result_ptr", "buffer")
        m3 == WrReg(m2, "result_maxcnt", CHANNELS)
        m4 == WrReg(m3, "enable", TRUE)
        m5 == Fence(m4)
    IN  m5

\* SaadcTask::start_sample
StartSampleWrites(r) ==
    LET m5 == ProgramDma(Machine(r))
        m6 == Task(m5, "tasks_start")
        m7 == Task(m6, "tasks_sample")
        m8 == WrReg(m7, "inten", {"END"})
        m9 == WrIntenset(m8, {"END"})
    IN  m9

StartSample ==
    /\ engine = "SaadcTask" /\ pc = "idle"
    /\ LET m == StartSampleWrites(saadc)
       IN  /\ saadc' = m.r
           /\ trace' = m.t
    /\ cycle' = "start_sample"
    /\ last' = Ret("start_sample", "unit", <<>>, FALSE, cycle, 0, "id", saadc)
    /\ UNCHANGED <<engine, pc, buffer, val, count, callback, xfer>>

\* SaadcTask::prepare_sample
PrepareSampleWrites(r) ==
    LET m5 == ProgramDma(Machine(r))
        m6 == Task(m5, "tasks_start")
    IN  m6

PrepareSample ==
    /\ engine = "SaadcTask" /\ pc = "idle"
    /\ LET m == PrepareSampleWrites(saadc)
       IN  /\ saadc' = m.r
           /\ trace' = m.t
    /\ last' = Ret("prepare_sample", "unit", <<>>, FALSE, cycle, 0, "id", saadc)
    /\ UNCHANGED <<engine, pc, buffer, val, count, callback, cycle, xfer>>

\* `let mut res = [T::default(); CHANNELS]; for (idx, val) in
\* self.buffer.iter().enumerate() { res[idx] = callback(*val); }`
RECURSIVE MapLoop(_, _, _, _)
MapLoop(res, f, buf, idx) ==
    IF idx > Len(buf)
    THEN res
    ELSE MapLoop([res EXCEPT ![idx] = Apply(f, buf[idx])], f, buf, idx + 1)

\* mutant of MapBuffer: the loop stops one element early
MapBufferShort(f, buf) ==
    MapLoop([i \in 1..CHANNELS |-> DefaultT], f, SubSeq(buf, 1, Len(buf) - 1), 1)

MapBuffer(f, buf) == MapLoop([i \in 1..CHANNELS |-> DefaultT], f, buf, 1)

\* SaadcTask::read_buffer
ReadBuffer(f) ==
    /\ engine = "SaadcTask" /\ pc = "idle"
    /\ trace' = <<>>
    /\ last' = Ret("read_buffer", "array", MapBuffer(f, buffer), TRUE,
                   cycle, 0, f, saadc)
    /\ UNCHANGED <<saadc, engine, pc, buffer, val, count, callback, cycle, xfer>>

\* SaadcTask::complete_sample
CompleteSampleWrites(r) ==
    LET m1 == Fence(Machine(r))
        m2 == Task(m1, "tasks_start")
        m3 == Task(m2, "tasks_sample")
        m4 == WrReg(m3, "events_end", FALSE)
        m5 == WrIntenclr(m4, {"END"})
    IN  m5

CompleteSample(f) ==
    /\ engine = "SaadcTask" /\ pc = "idle"
    /\ LET m == CompleteSampleWrites(saadc)
       IN  /\ saadc' = m.r
           /\ trace' = m.t
    /\ cycle' = "complete_sample"
    /\ last' = Ret("complete_sample", "array", MapBuffer(f, buffer), TRUE,
                   "complete_sample", 0, f, saadc)
    /\ UNCHANGED <<engine, pc, buffer, val, count, callback, xfer>>

\* sample_blocking up to its poll loop
SampleBlockingWrites(r) ==
    LET m5 == ProgramDma(Machine(r))
        m6 == Task(m5, "tasks_start")
        m7 == Task(m6, "tasks_sample")
        m8 == WrReg(m7, "inten", {})
        m9 == WrIntenset(m8, {})
        m10 == Fence(m9)
        m11 == Task(m10, "tasks_start")
        m12 == Task(m11, "tasks_sample")
    IN  m12

SampleBlocking(f) ==
    /\ engine = "SaadcTask" /\ pc = "idle"
    /\ LET m == SampleBlockingWrites(saadc)
       IN  /\ saadc' = m.r
           /\ trace' = m.t
    /\ pc' = "sb_poll"
    /\ count' = 0
    /\ callback' = f
    /\ cycle' = "sample_blocking"
    /\ last' = Running("sample_blocking")
    /\ UNCHANGED <<engine, buffer, val, xfer>>

\* mutant of PollExceeded: `if count >= 10_000`
PollExceededEarly(c) == c >= PollCeiling

\* `if count > 10_000`
PollExceeded(c) == c > PollCeiling

\* mutant of SbPoll: the timeout return disables the peripheral first
SbPollDisable ==
    /\ pc = "sb_poll"
    /\ IF saadc.events_end
       THEN LET m1 == WrReg([r |-> saadc, t |-> trace, panicked |-> FALSE],
                            "events_end", FALSE)
                m2 == Fence(m1)
            IN  /\ saadc' = m2.r
                /\ trace' = m2.t
                /\ pc' = "idle"
                /\ count' = 0
                /\ cycle' = "idle"
                /\ last' = Ret("sample_blocking", "Some", MapBuffer(callback, buffer),
                               TRUE, "idle", count + 1, callback, saadc)
       ELSE IF PollExceeded(count + 1)
            THEN LET m1 == WrReg([r |-> saadc, t |-> trace, panicked |-> FALSE],
                                 "enable", FALSE)
                 IN  /\ saadc' = m1.r
                     /\ trace' = m1.t
                     /\ pc' = "idle"
                     /\ count' = 0
                     /\ last' = Ret("sample_blocking", "None", <<>>, FALSE, cycle,
                                    count + 1, callback, saadc)
                     /\ UNCHANGED cycle
            ELSE /\ count' = count + 1
                 /\ UNCHANGED <<saadc, trace, cycle, pc, last>>
    /\ UNCHANGED <<engine, buffer, val, callback, xfer>>

\* one iteration of `while saadc.events_end.read().bits() == 0 { .. }`, and
\* the rest of sample_blocking once the loop is left
SbPoll ==
    /\ pc = "sb_poll"
    /\ IF saadc.events_end
       THEN LET m1 == WrReg([r |-> saadc, t |-> trace, panicked |-> FALSE],
                            "events_end", FALSE)
                m2 == Fence(m1)
            IN  /\ saadc' = m2.r
                /\ trace' = m2.t
                /\ pc' = "idle"
                /\ count' = 0
                /\ cycle' = "idle"
                /\ last' = Ret("sample_blocking", "Some", MapBuffer(callback, buffer),
                               TRUE, "idle", count + 1, callback, saadc)
       ELSE IF PollExceeded(count + 1)
            THEN /\ pc' = "idle"
                 /\ count' = 0
                 /\ last' = Ret("sample_blocking", "None", <<>>, FALSE, cycle,
                                count + 1, callback, saadc)
                 /\ UNCHANGED <<saadc, trace, cycle>>
            ELSE /\ count' = count + 1
                 /\ UNCHANGED <<saadc, trace, cycle, pc, last>>
    /\ UNCHANGED <<engine, buffer, val, callback, xfer>>

\* in Spec a call polls at most MaxSpecPolls times in vain
SbPollCapped == (saadc.events_end \/ count < MaxSpecPolls) /\ SbPoll

TaskNext ==
    \/ \E config \in Configs : \E channels \in ChannelArrays :
          SaadcTaskNew(config, channels, ZeroBuffer)
    \/ StartSample
    \/ PrepareSample
    \/ \E f \in Callbacks : ReadBuffer(f)
    \/ \E f \in Callbacks : CompleteSample(f)
    \/ \E f \in Callbacks : SampleBlocking(f)

Next ==
    \/ HwCalibrateDone
    \/ HwConvert
    \/ SaadcNext
    \/ TaskNext
    \/ SbPollCapped

Spec == Init /\ [][Next]_vars

(***************************************************************************)
(* SpecBlocking: a SaadcTask as SaadcTask::new leaves it, used through     *)
(* sample_blocking only, the poll loop running to its ceiling.  The        *)
(* hardware transfers all CHANNELS results, the first the top 16-bit code. *)
(***************************************************************************)
ValidChannels == [i \in 1..CHANNELS |-> IF i = 1 THEN 0 ELSE 8]

InitBlocking ==
    LET m == TaskNewWrites(ResetRegs, DefaultConfig, ValidChannels)
    IN  /\ saadc = m.r
        /\ trace = m.t
        /\ engine = "SaadcTask"
        /\ pc = "idle"
        /\ buffer = ZeroBuffer
        /\ val = 0
        /\ count = 0
        /\ callback = "id"
        /\ cycle = "idle"
        /\ xfer = <<>>
        /\ last = Ret("SaadcTask::new", "SaadcTask", <<>>, FALSE, "idle", 0,
                      "id", ResetRegs)

HwConvertFull ==
    HwEnd(Results(Width16 - 1, saadc.result_maxcnt), saadc.result_maxcnt)

NextBlocking ==
    \/ HwCalibrateDone
    \/ HwConvertFull
    \/ SampleBlocking("double")
    \/ SbPoll

SpecBlocking == InitBlocking /\ [][NextBlocking]_vars

(***************************************************************************)
(* SpecChannels: the two constructors, read_channel and free, tried with   *)
(* every channel code the `Channel` implementations provide, and one they  *)
(* do not.                                                                 *)
(***************************************************************************)
\* `channel_mappings!`, InternalVdd and InternalVddHdiv5
ChannelCodes ==
    (0..7) \cup (IF HasVdd THEN {8} ELSE {}) \cup (IF HasVddHdiv5 THEN {13} ELSE {})

\* a code outside the `Channel` implementations
BadCode == 9

AllCodes == ChannelCodes \cup {BadCode}

AllArrays == [1..CHANNELS -> AllCodes]

NextChannels ==
    \/ \E channels \in AllArrays : SaadcTaskNew(DefaultConfig, channels, ZeroBuffer)
    \/ SaadcNew(DefaultConfig)
    \/ SaadcNewReturn
    \/ \E ch \in AllCodes : ReadChannel(ch)
    \/ ReadChannelReturn
    \/ SaadcFree
    \/ HwCalibrateDone
    \/ HwConvertFull

SpecChannels == Init /\ [][NextChannels]_vars

(***************************************************************************)
(* SpecOneShotFair: the one-shot engine alone, under the assumptions that  *)
(* a triggered conversion eventually finishes and that the processor goes  *)
(* on executing the wait loop of read_channel.                             *)
(***************************************************************************)
NextOneShot ==
    \/ HwCalibrateDone
    \/ HwConvert
    \/ SaadcNext

SpecOneShotFair ==
    /\ Init
    /\ [][NextOneShot]_vars
    /\ WF_vars(HwConvert)
    /\ WF_vars(ReadChannelReturn)

(***************************************************************************)
(* SpecLate: SpecBlocking with the hardware free to act between the        *)
(* statements of sample_blocking that program the transfer and the         *)
(* statements that trigger it.                                             *)
(***************************************************************************)
\* sample_blocking from `events_end.reset()` to the first fence
SbProgram(f) ==
    /\ engine = "SaadcTask" /\ pc = "idle"
    /\ LET m == ProgramDma(Machine(saadc))
       IN  /\ saadc' = m.r
           /\ trace' = m.t
    /\ pc' = "sb_armed"
    /\ count' = 0
    /\ callback' = f
    /\ last' = Running("sample_blocking")
    /\ UNCHANGED <<engine, buffer, val, cycle, xfer>>

\* sample_blocking from the first `tasks_start` to the poll loop
SbTriggerWrites(m5) ==
    LET m6 == Task(m5, "tasks_start")
        m7 == Task(m6, "tasks_sample")
        m8 == WrReg(m7, "inten", {})
        m9 == WrIntenset(m8, {})
        m10 == Fence(m9)
        m11 == Task(m10, "tasks_start")
        m12 == Task(m11, "tasks_sample")
    IN  m12

SbTrigger ==
    /\ pc = "sb_armed"
    /\ LET m == SbTriggerWrites([r |-> saadc, t |-> trace, panicked |-> FALSE])
       IN  /\ saadc' = m.r
           /\ trace' = m.t
    /\ pc' = "sb_poll"
    /\ cycle' = "sample_blocking"
    /\ UNCHANGED <<engine, buffer, val, count, callback, xfer, last>>

NextLate ==
    \/ HwCalibrateDone
    \/ HwConvertFull
    \/ SbProgram("double")
    \/ SbTrigger
    \/ SbPoll

SpecLate == InitBlocking /\ [][NextLate]_vars

(***************************************************************************)
(* SpecTask: the multi-channel engine alone, from reset, every operation   *)
(* available and the poll loop of sample_blocking running to its ceiling.  *)
(***************************************************************************)
NextTask ==
    \/ HwCalibrateDone
    \/ HwConvertFull
    \/ SaadcTaskNew(DefaultConfig, ValidChannels, ZeroBuffer)
    \/ StartSample
    \/ PrepareSample
    \/ ReadBuffer("double")
    \/ CompleteSample("double")
    \/ SampleBlocking("double")
    \/ SbPoll

SpecTask == Init /\ [][NextTask]_vars

(***************************************************************************)
(* Properties.                                                             *)
(***************************************************************************)
Ready == engine \in {"Saadc", "SaadcTask"} /\ pc = "idle"

TriggerRegs == {"tasks_start", "tasks_sample"}

\* C1: software never reads the sample buffer, nor returns values derived
\* from it, while a cycle is in flight: every call that read the buffer did
\* so with no cycle between its sample trigger and the observation of the
\* end event.
C1_NoReadInFlight == last.bufRead => ~last.inFlight

\* C2 as stated, with K = 10,000: sample_blocking returns None exactly when
\* the end event is not observed set within the first K reads of the event,
\* so a call that returned Some saw the event at or before read K.
C2_TimeoutWithinK ==
    last.op = "sample_blocking" /\ last.tag \in {"Some", "None"}
        => (last.tag = "None" <=> ~(last.tag = "Some" /\ last.reads <= PollCeiling))

\* C2 amended: the loop reads the event up to K + 1 = 10,001 times.  The
\* step that leaves the loop returns Some, with the callback applied to
\* each buffer element, exactly when that read finds the event set, and
\* None exactly when the read is number K + 1 and finds it clear; no read
\* is made after K + 1.
C2_TimeoutAfterCeilingPlusOne ==
    [][pc = "sb_poll" =>
         /\ count <= PollCeiling
         /\ pc' = "idle" =>
              /\ last'.tag \in {"Some", "None"}
              /\ last'.tag = "Some" <=> saadc.events_end
              /\ last'.tag = "None" <=> (~saadc.events_end /\ count = PollCeiling)
              /\ last'.reads = count + 1
              /\ last'.tag = "Some" =>
                    last'.data = [i \in 1..CHANNELS |-> Apply(callback, buffer[i])]
         /\ (pc' = "sb_poll" /\ count' # count) =>
              (~saadc.events_end /\ count' = count + 1 /\ count < PollCeiling)]_vars

\* C2 witness: a call that saw the event at read K + 1 and returned Some.
C2_Witness ==
    /\ last.op = "sample_blocking" /\ last.tag = "Some"
    /\ last.reads = PollCeiling + 1
    /\ last.data = [i \in 1..CHANNELS |-> IF i = 1 THEN Width16 - 2 ELSE 2 * (i - 2)]

\* C3: a sample cycle whose transferred-element count differs from the
\* requested count (1 for read_channel, CHANNELS for sample_blocking and
\* complete_sample) never returns buffer contents as a valid result.
C3_CountValidated ==
    /\ last.op = "read_channel" /\ last.tag = "Ok" => last.amount = 1
    /\ last.op = "sample_blocking" /\ last.tag = "Some" => last.amount = CHANNELS
    /\ last.op = "complete_sample" /\ last.tag = "array" => last.amount = CHANNELS

\* C4: for a cycle triggered by start_sample, a completion query made
\* before the end event is set reports pending and yields no buffer data:
\* every complete_sample that yielded the array for such a cycle found the
\* end event set.
C4_PendingUntilEnd ==
    (last.op = "complete_sample" /\ last.cycle = "start_sample"
        /\ last.tag = "array") => last.endSeen

\* C5: when the hardware stored one result v for a read_channel and raised
\* the end event, the step on which read_channel returns yields Ok(v) with
\* v read as an i16, and clears the end event; and whenever a Saadc is
\* between calls the end event is clear and no conversion is pending, so
\* the next read_channel cannot complete on a stale event.
C5_OneShotRead ==
    [][/\ (pc = "rc_wait" /\ pc' = "idle" /\ saadc.result_amount = 1) =>
            /\ Len(xfer) = 1
            /\ last'.op = "read_channel" /\ last'.tag = "Ok"
            /\ last'.data = <<IF xfer[1] >= 32768 THEN xfer[1] - 65536
                              ELSE xfer[1]>>
       /\ (engine' = "Saadc" /\ pc' = "idle") =>
            (~saadc'.events_end /\ ~saadc'.sampling)]_vars

\* C5 witness: read_channel returned a negative code.
C5_Witness ==
    last.op = "read_channel" /\ last.tag = "Ok" /\ last.data = <<-MaxCode>>

\* C6: a cycle that completed with exactly CHANNELS transferred elements b
\* yields an array r of length CHANNELS with r[i] = f(b[i]), from
\* sample_blocking and from a read_buffer made once the end event is set.
C6_ResultMapping ==
    [][(/\ \/ last'.op = "sample_blocking" /\ last'.tag = "Some"
           \/ last'.op = "read_buffer" /\ last'.endSeen
        /\ last' # last
        /\ saadc.result_amount = CHANNELS)
          => /\ Len(last'.data) = CHANNELS
             /\ Len(xfer) = CHANNELS
             /\ \A i \in 1..CHANNELS :
                   last'.data[i] = IF last'.f = "double"
                                   THEN (2 * xfer[i]) % 65536
                                   ELSE xfer[i]]_vars

\* C6 witness: a doubled array whose last element is not the default.
C6_Witness ==
    /\ last.op = "sample_blocking" /\ last.tag = "Some"
    /\ last.amount = CHANNELS /\ last.f = "double"
    /\ last.data = [i \in 1..CHANNELS |-> 2 * (MaxCode + i - 1)]

\* C7: a constructor returns a ready engine only after the calibration-done
\* event has been observed set, so a ready engine is never still
\* calibrating, and no start or sample task is triggered during calibration.
C7_CalibratedBeforeReady ==
    /\ Ready => (saadc.events_calibratedone /\ ~saadc.calibrating)
    /\ \A i \in 1..Len(trace) :
          trace[i].reg \in TriggerRegs => ~trace[i].calibrating

\* C8: the enable bit is set when the calibrate-offset task is triggered,
\* when a constructor has returned, and whenever a start or sample task is
\* triggered.
C8_EnabledAtTriggers ==
    /\ \A i \in 1..Len(trace) :
          trace[i].reg \in TriggerRegs \cup {"tasks_calibrateoffset"}
              => trace[i].enable
    /\ Ready => saadc.enable

\* C9: whenever the start or the sample task is triggered, result.ptr holds
\* the base address of the cycle's buffer and result.maxcnt its channel
\* count (the buffer and CHANNELS for SaadcTask, `val` and 1 for
\* read_channel), and a fence precedes the trigger.
C9_DmaProgrammedAtTrigger ==
    \A i \in 1..Len(trace) :
        trace[i].reg \in TriggerRegs =>
            /\ trace[i].ptr = IF engine = "Saadc" THEN "val" ELSE "buffer"
            /\ trace[i].maxcnt = IF engine = "Saadc" THEN 1 ELSE CHANNELS
            /\ \E j \in 1..(i - 1) : trace[j].reg = "compiler_fence"

\* the registers C10 compares
RegView(r) ==
    [enable |-> r.enable, resolution |-> r.resolution,
     oversample |-> r.oversample, samplerate |-> r.samplerate,
     ch_config |-> r.ch_config, ch_pselp |-> r.ch_pselp,
     ch_pseln |-> r.ch_pseln, result_ptr |-> r.result_ptr,
     result_maxcnt |-> r.result_maxcnt,
     events_calibratedone |-> r.events_calibratedone,
     events_end |-> r.events_end]

\* Saadc::new on a freshly reset peripheral, calibration finished
FirstTimeRegs(config) ==
    [SaadcNewWrites(ResetRegs, config).r EXCEPT
        !.calibrating = FALSE, !.events_calibratedone = TRUE]

\* C10: whenever Saadc::new has returned, also on a handle that free
\* returned after earlier read_channel calls, the registers are those a
\* first-time Saadc::new with that configuration leaves on a freshly reset
\* peripheral.
C10_ReinitSameAsFirst ==
    (last.op = "Saadc::new" /\ last.tag = "Saadc") =>
        \E config \in Configs : RegView(saadc) = RegView(FirstTimeRegs(config))

\* the analog inputs in the order of their numbers
AnalogInputs ==
    <<"AnalogInput0", "AnalogInput1", "AnalogInput2", "AnalogInput3",
      "AnalogInput4", "AnalogInput5", "AnalogInput6", "AnalogInput7">>

\* the positive input C11 names for a supported code
InputOfCode(c) ==
    IF c \in 0..7 THEN AnalogInputs[c + 1]
    ELSE IF c = 8 THEN "VDD" ELSE "VDDHDIV5"

\* C11: both engines resolve a channel code by the same mapping: code c in
\* 0..7 selects analog input c, 8 the internal supply and 13 the supply
\* over 5.  A SaadcTask::new step called with supported codes writes the
\* input of its idx-th code to pselp of slot idx and leaves pselp of the
\* slots from CHANNELS on alone; a read_channel step called with a
\* supported code writes the input of the code to pselp of slot 0 and
\* leaves pselp of every other slot alone.
C11_ChannelMapping ==
    [][/\ \A channels \in [1..CHANNELS -> ChannelCodes] :
             SaadcTaskNew(DefaultConfig, channels, ZeroBuffer) =>
                 /\ engine' = "SaadcTask"
                 /\ \A s \in Slots :
                       saadc'.ch_pselp[s] =
                           IF s < CHANNELS THEN InputOfCode(channels[s + 1])
                           ELSE saadc.ch_pselp[s]
       /\ \A ch \in ChannelCodes :
             ReadChannel(ch) =>
                 /\ pc' = "rc_wait"
                 /\ \A s \in Slots :
                       saadc'.ch_pselp[s] =
                           IF s = 0 THEN InputOfCode(ch) ELSE saadc.ch_pselp[s]]_vars

\* C11 witness: a SaadcTask built with code 7 first and code 13 last.
C11_Witness ==
    /\ engine = "SaadcTask"
    /\ saadc.ch_pselp[0] = "AnalogInput7"
    /\ saadc.ch_pselp[CHANNELS - 1] = "VDDHDIV5"

\* C12: a channel code outside the supported set never starts a
\* conversion.  A SaadcTask::new step called with such a code in its array
\* aborts: no engine results, the step writes neither enable nor any task
\* register, and it leaves the peripheral disabled, not calibrating and
\* with no conversion pending.  A read_channel step called with such a
\* code returns Err having accessed no register: the register block is
\* unchanged and no conversion is pending.
C12_InvalidCodeAborts ==
    [][/\ \A config \in Configs : \A channels \in AllArrays :
             (/\ \E i \in 1..CHANNELS : channels[i] \notin ChannelCodes
              /\ SaadcTaskNew(config, channels, ZeroBuffer)) =>
                 /\ engine' = "panicked"
                 /\ last'.op = "SaadcTask::new" /\ last'.tag = "panic"
                 /\ \A i \in 1..Len(trace') :
                       trace'[i].reg \notin
                           TriggerRegs \cup {"enable", "tasks_calibrateoffset"}
                 /\ ~saadc'.enable /\ ~saadc'.calibrating
                 /\ ~saadc'.started /\ ~saadc'.sampling
       /\ \A ch \in AllCodes \ ChannelCodes :
             ReadChannel(ch) =>
                 /\ pc' = "idle"
                 /\ last'.op = "read_channel" /\ last'.tag = "Err"
                 /\ trace' = <<>>
                 /\ saadc' = saadc
                 /\ ~saadc'.started /\ ~saadc'.sampling]_vars

\* C12 witness: SaadcTask::new aborted on the last code of its array after
\* it had resolved code 13 for slot 0.
C12_Witness ==
    /\ engine = "panicked"
    /\ last.op = "SaadcTask::new" /\ last.tag = "panic"
    /\ saadc.ch_pselp[0] = "VDDHDIV5"

\* C13: the step on which sample_blocking returns the timeout failure
\* accesses no register after its last poll: the register block is as the
\* poll found it and the last access of the call is its sample trigger, so
\* the end event has not been reset, the peripheral is enabled,
\* result.ptr addresses the engine's buffer with CHANNELS elements to
\* come, and the cycle the call triggered is still in flight; the call
\* returns no buffer contents and leaves the buffer alone.
C13_TimeoutNoWrites ==
    [][(pc = "sb_poll" /\ pc' = "idle" /\ last'.tag = "None") =>
          /\ saadc' = saadc
          /\ trace' = trace
          /\ trace'[Len(trace')].reg = "tasks_sample"
          /\ \A i \in 1..Len(trace') :
                trace'[i].reg = "events_end" =>
                    \E j \in (i + 1)..Len(trace') : trace'[j].reg \in TriggerRegs
          /\ saadc'.enable
          /\ saadc'.result_ptr = "buffer" /\ saadc'.result_maxcnt = CHANNELS
          /\ cycle' = "sample_blocking" /\ last'.inFlight
          /\ last'.data = <<>> /\ ~last'.bufRead
          /\ buffer' = buffer]_vars

\* C13 witness: sample_blocking has timed out with its conversion pending.
C13_Witness ==
    /\ pc = "idle"
    /\ last.op = "sample_blocking" /\ last.tag = "None"
    /\ saadc.started /\ saadc.sampling
    /\ saadc.enable /\ ~saadc.events_end

\* the SaadcConfig literal in the documentation of the Default impl
DocumentedConfig ==
    [resolution |-> "_14BIT", oversample |-> "OVER8X", reference |-> "VDD1_4",
     gain |-> "GAIN1_4", resistor |-> "BYPASS", time |-> "_20US"]

\* C14: SaadcConfig::default() equals the documented configuration in each
\* of its six fields (resolution 14 bit, oversample 8x, reference VDD/4,
\* gain 1/4, resistor bypass, acquisition time 20 us), and an engine
\* constructed with it holds these values in the resolution and oversample
\* registers and in the config register of every slot it configured.
C14_DefaultsAsDocumented ==
    /\ DefaultConfig.resolution = DocumentedConfig.resolution
    /\ DefaultConfig.oversample = DocumentedConfig.oversample
    /\ DefaultConfig.reference = DocumentedConfig.reference
    /\ DefaultConfig.gain = DocumentedConfig.gain
    /\ DefaultConfig.resistor = DocumentedConfig.resistor
    /\ DefaultConfig.time = DocumentedConfig.time
    /\ DOMAIN DefaultConfig = DOMAIN DocumentedConfig
    /\ engine \in {"Saadc", "SaadcTask"} =>
          /\ saadc.resolution = "_14BIT"
          /\ saadc.oversample = "OVER8X"
          /\ \A s \in 0..((IF engine = "Saadc" THEN 1 ELSE CHANNELS) - 1) :
                /\ saadc.ch_config[s].refsel = "VDD1_4"
                /\ saadc.ch_config[s].gain = "GAIN1_4"
                /\ saadc.ch_config[s].resp = "BYPASS"
                /\ saadc.ch_config[s].tacq = "_20US"

\* C14 witness: a SaadcTask constructed with the default configuration.
C14_Witness ==
    /\ engine = "SaadcTask"
    /\ last.op = "SaadcTask::new" /\ last.tag = "SaadcTask"
    /\ saadc.ch_config[CHANNELS - 1].tacq = DefaultConfig.time

\* C15: prepare_sample resets the end event, programs result.ptr and
\* result.maxcnt and triggers the start task but not the sample task; and
\* as long as no later call has been made, so that no sample task has been
\* triggered since, the end event stays clear and the buffer is not
\* written.
C15_PrepareOnlyArms ==
    [][/\ (last'.op = "prepare_sample" /\ last' # last) =>
            /\ \E i \in 1..Len(trace') : trace'[i].reg = "events_end"
            /\ \E i \in 1..Len(trace') : trace'[i].reg = "tasks_start"
            /\ \A i \in 1..Len(trace') : trace'[i].reg # "tasks_sample"
            /\ ~saadc'.events_end
            /\ saadc'.result_ptr = "buffer" /\ saadc'.result_maxcnt = CHANNELS
       /\ (last.op = "prepare_sample" /\ last' = last) =>
            /\ ~saadc'.events_end
            /\ buffer' = buffer]_vars

\* how often the running or last call has triggered the task reg
TriggerCount(reg) == Cardinality({i \in 1..Len(trace) : trace[i].reg = reg})

\* C16: each sample cycle triggers the start task and the sample task
\* exactly once: a read_channel or sample_blocking that is waiting for the
\* end event, and a start_sample that has returned, have triggered each
\* task once, and a complete_sample that finishes a cycle of start_sample
\* triggers neither again.
C16_OneTriggerPerCycle ==
    /\ (pc \in {"rc_wait", "sb_poll"} \/ last.op = "start_sample") =>
          (TriggerCount("tasks_start") = 1 /\ TriggerCount("tasks_sample") = 1)
    /\ (last.op = "complete_sample" /\ last.cycle = "start_sample") =>
          (TriggerCount("tasks_start") = 0 /\ TriggerCount("tasks_sample") = 0)

\* the slots an engine has configured
ConfiguredSlots ==
    IF engine = "Saadc" THEN {0}
    ELSE IF engine = "SaadcTask" THEN 0..(CHANNELS - 1) ELSE {}

C18_UnboundedWait ==
    /\ [][/\ (pc = "rc_wait" /\ pc' # "rc_wait") =>
                /\ saadc.events_end
                /\ pc' = "idle"
                /\ last'.op = "read_channel" /\ last'.tag \in {"Ok", "Err"}
                /\ last'.tag = "Err" <=> saadc.result_amount # 1
                /\ last'.endSeen /\ last'.reads >= 1
          /\ (pc = "rc_wait" /\ ~saadc.events_end) =>
                (pc' = "rc_wait" /\ last' = last)]_vars
    /\ (pc = "rc_wait") ~>
          (pc = "idle" /\ last.op = "read_channel" /\ last.tag \in {"Ok", "Err"})

\* C18 witness: read_channel has returned the count-mismatch error after
\* it saw the end event of a conversion that transferred nothing.
C18_Witness ==
    /\ pc = "idle"
    /\ last.op = "read_channel" /\ last.tag = "Err"
    /\ last.reads = 1 /\ last.endSeen /\ last.amount = 0

\* C19: when sample_blocking takes the end event for the completion of its
\* cycle, the event was raised by the conversion this call triggered, not
\* by a late completion of the cycle of an earlier call that timed out: so
\* the conversion the call triggered has finished, and the array returned
\* holds what that conversion stored.
C19_CompletionOfCurrentCycle ==
    [][(pc = "sb_poll" /\ pc' = "idle" /\ last'.tag = "Some") =>
          (~saadc.started /\ ~saadc.sampling)]_vars

\* C20: while a SaadcTask exists the DONE and RESULTDONE interrupts are
\* disabled; the END interrupt is enabled when SaadcTask::new and
\* start_sample have returned, and disabled when complete_sample and
\* sample_blocking have returned, the timeout return included.
C20_InterruptEnables ==
    engine = "SaadcTask" =>
        /\ "DONE" \notin saadc.inten
        /\ "RESULTDONE" \notin saadc.inten
        /\ last.op \in {"SaadcTask::new", "start_sample"} => "END" \in saadc.inten
        /\ (last.op \in {"complete_sample", "sample_blocking"}
               /\ last.tag # "running") => "END" \notin saadc.inten

\* C20 witness: sample_blocking has returned on its timeout, after its
\* last read of the end event, with the END interrupt disabled.
C20_Witness ==
    /\ engine = "SaadcTask"
    /\ last.op = "sample_blocking" /\ last.tag = "None"
    /\ last.reads = PollCeiling + 1
    /\ saadc.inten = {}

====
